---- MODULE Spec2Model ----
(***************************************************************************)
(* Model of src/url_loader.py: class URLLoader, which loads the http and   *)
(* https URLs found in the cells of a CSV file into the list self.urls.    *)
(*                                                                         *)
(* Text is a sequence of one-character strings, so that the string         *)
(* functions the code calls (lower, endswith, find, lstrip, replace) are   *)
(* computed character by character.  A Python value that is not a string   *)
(* (None, a list) is a record with a type tag.                             *)
(***************************************************************************)
EXTENDS Integers, Sequences, FiniteSets, TLC

(***************************************************************************)
(* Bounds of the model.                                                    *)
(***************************************************************************)
MaxRows == 2     \* data rows in a file
MaxCells == 2    \* cells in a data row
MaxList == 2     \* length up to which a caller grows a list it holds

(***************************************************************************)
(* Characters and text.                                                    *)
(***************************************************************************)
LowerLetters == {"a", "b", "c", "d", "f", "h", "n", "o", "p", "q", "s", "t", "v", "x"}
UpperLetters == {"C", "H", "P", "S", "T", "V"}
Digits == {"1"}

\* str.lower on one character
LowerChar(c) ==
  CASE c = "C" -> "c"
    [] c = "H" -> "h"
    [] c = "P" -> "p"
    [] c = "S" -> "s"
    [] c = "T" -> "t"
    [] c = "V" -> "v"
    [] OTHER -> c

\* str.lower with a fault: the text keeps its case
KeepCase(s) == s

\* str.lower
LowerStr(s) == [i \in 1..Len(s) |-> LowerChar(s[i])]

\* str.endswith with a fault: the comparison is skipped
EndsWithAnything(s, suffix) == TRUE

\* str.endswith
EndsWith(s, suffix) ==
  /\ Len(s) >= Len(suffix)
  /\ SubSeq(s, Len(s) - Len(suffix) + 1, Len(s)) = suffix

\* str.find(c, start), with positions counted from 1 and 0 for "not found"
RECURSIVE Find(_, _, _)
Find(s, c, start) ==
  IF start > Len(s) THEN 0
  ELSE IF s[start] = c THEN start
  ELSE Find(s, c, start + 1)

\* c in s
Contains(s, c) == Find(s, c, 1) > 0

\* the text from position i to the end: s[i-1:] in Python
From(s, i) == SubSeq(s, i, Len(s))

(***************************************************************************)
(* urllib.parse.urlsplit, as the standard library computes it.             *)
(***************************************************************************)
\* urllib.parse._WHATWG_C0_CONTROL_OR_SPACE, the members the model can spell
C0ControlOrSpace == {" ", "\t", "\r", "\n"}
\* urllib.parse._UNSAFE_URL_BYTES_TO_REMOVE
UnsafeUrlBytes == {"\t", "\r", "\n"}
\* urllib.parse.scheme_chars
scheme_chars == LowerLetters \cup UpperLetters \cup Digits \cup {"+", "-", "."}
HexDigits == {"a", "b", "c", "d", "f", "C", "1"}

\* url.lstrip(_WHATWG_C0_CONTROL_OR_SPACE)
RECURSIVE LStrip(_)
LStrip(s) ==
  IF s # << >> /\ s[1] \in C0ControlOrSpace THEN LStrip(Tail(s)) ELSE s

\* for b in _UNSAFE_URL_BYTES_TO_REMOVE: url = url.replace(b, "")
NotUnsafe(c) == c \notin UnsafeUrlBytes
RemoveUnsafe(s) == SelectSeq(s, NotUnsafe)

\* _splitnetloc(url, 2): the position of the first of / ? # at or after
\* position 3, or Len(url) + 1
RECURSIVE NetlocEnd(_, _)
NetlocEnd(url, i) ==
  IF i > Len(url) THEN i
  ELSE IF url[i] \in {"/", "?", "#"} THEN i
  ELSE NetlocEnd(url, i + 1)

\* ipaddress.ip_address accepts the text as an IPv6 address.  The table
\* holds the IPv6 addresses that the bracketed hosts of the model spell.
IPv6Literals == { <<":", ":", "1">> }

\* re.match(r"\Av[a-fA-F0-9]+\..+\Z", hostname)
IsIPvFuture(h) ==
  \E k \in 2..Len(h) :
    /\ \A j \in 2..k : h[j] \in HexDigits
    /\ k + 1 <= Len(h) /\ h[k + 1] = "."
    /\ k + 2 <= Len(h)

\* _check_bracketed_host returns without raising ValueError
BracketedHostOk(h) ==
  IF h # << >> /\ h[1] = "v" THEN IsIPvFuture(h) ELSE h \in IPv6Literals

\* netloc.partition('[')[2].partition(']')[0]
BracketedHost(netloc) ==
  LET after == From(netloc, Find(netloc, "[", 1) + 1)
      j == Find(after, "]", 1)
  IN IF j = 0 THEN after ELSE SubSeq(after, 1, j - 1)

\* urlsplit(url): raised is TRUE when it raises ValueError.  _checknetloc
\* acts on a netloc that is not ASCII only, and all text here is ASCII.
urlsplit(url0) ==
  LET url1 == RemoveUnsafe(LStrip(url0))
      i == Find(url1, ":", 1)
      hasScheme == /\ i > 1
                   /\ url1[1] \in LowerLetters \cup UpperLetters
                   /\ \A k \in 1..(i - 1) : url1[k] \in scheme_chars
      scheme == IF hasScheme THEN LowerStr(SubSeq(url1, 1, i - 1)) ELSE << >>
      url2 == IF hasScheme THEN From(url1, i + 1) ELSE url1
      hasNetloc == Len(url2) >= 2 /\ url2[1] = "/" /\ url2[2] = "/"
      netloc == IF hasNetloc THEN SubSeq(url2, 3, NetlocEnd(url2, 3) - 1) ELSE << >>
      open == Contains(netloc, "[")
      close == Contains(netloc, "]")
      raised == \/ open /\ ~close
                \/ close /\ ~open
                \/ open /\ close /\ ~BracketedHostOk(BracketedHost(netloc))
  IN [raised |-> raised, scheme |-> scheme, netloc |-> netloc]

(***************************************************************************)
(* Python values that reach is_valid_url: a cell text, None (a missing     *)
(* trailing cell), or the list of the cells past the last header.          *)
(***************************************************************************)
Str(s) == [t |-> "str", v |-> s]
None == [t |-> "None", v |-> << >>]
List(l) == [t |-> "list", v |-> l]

\* _coerce_args(url, ''): a str passes as it is; any other value that is
\* falsy becomes '', and one that is truthy has .decode called on it, which
\* a list does not have (AttributeError)
coerce_args(value) ==
  IF value.t = "str" THEN [raised |-> FALSE, url |-> value.v]
  ELSE IF value.t = "None" \/ value.v = << >> THEN [raised |-> FALSE, url |-> << >>]
  ELSE [raised |-> TRUE, url |-> << >>]

http == <<"h", "t", "t", "p">>
https == <<"h", "t", "t", "p", "s">>

\* URLLoader.is_valid_url: raised is TRUE when the call raises, truthy is the
\* truth value of what it returns (False, or the netloc text)
is_valid_url(value) ==
  LET c == coerce_args(value)
      r == urlsplit(c.url)
  IN IF c.raised \/ r.raised
       THEN [raised |-> FALSE, truthy |-> FALSE]
       ELSE [raised |-> FALSE,
             truthy |-> r.scheme \in {http, https} /\ r.netloc # << >>]

(***************************************************************************)
(* csv.DictReader, as the standard library computes it.  A raw row is the  *)
(* list of cell texts that csv.reader yields for one record; a blank line  *)
(* is the empty list.  A dict is the sequence of its items in insertion    *)
(* order.                                                                  *)
(***************************************************************************)
\* d[k] = v: a key the dict holds keeps its place and takes the new value
DictSet(d, k, v) ==
  IF \E i \in DOMAIN d : d[i].k = k
    THEN [i \in DOMAIN d |-> IF d[i].k = k THEN [k |-> k, v |-> v] ELSE d[i]]
    ELSE Append(d, [k |-> k, v |-> v])

\* dict(zip(fieldnames, row)), from pair i on
RECURSIVE ZipDict(_, _, _, _)
ZipDict(fieldnames, row, i, d) ==
  IF i > Len(fieldnames) \/ i > Len(row) THEN d
  ELSE ZipDict(fieldnames, row, i + 1, DictSet(d, Str(fieldnames[i]), Str(row[i])))

\* for key in fieldnames[lr:]: d[key] = restval, from key i on
RECURSIVE FillRest(_, _, _)
FillRest(fieldnames, i, d) ==
  IF i > Len(fieldnames) THEN d
  ELSE FillRest(fieldnames, i + 1, DictSet(d, Str(fieldnames[i]), None))

\* the dict DictReader.__next__ builds for a row that is not blank
DictRow(fieldnames, row) ==
  LET d == ZipDict(fieldnames, row, 1, << >>)
      lf == Len(fieldnames)
      lr == Len(row)
  IN IF lf < lr THEN DictSet(d, None, List(From(row, lf + 1)))
     ELSE IF lf > lr THEN FillRest(fieldnames, lr + 1, d)
     ELSE d

\* row.values()
Values(d) == [i \in DOMAIN d |-> d[i].v]

\* the inner loop of load_urls_from_csv over one row: the values that
\* is_valid_url accepts, in order (only a str is ever accepted)
IsAccepted(value) == is_valid_url(value).truthy
Accepted(values) ==
  LET ok == SelectSeq(values, IsAccepted)
  IN [i \in DOMAIN ok |-> ok[i].v]

(***************************************************************************)
(* list(set(results)): the elements of results without repetition, in an   *)
(* order the set decides.                                                  *)
(***************************************************************************)
SetOf(l) == {l[i] : i \in DOMAIN l}

\* list(set(results)) with a fault: the list is returned as it is
list_no_set(results) == {results}

list_of_set(results) ==
  LET S == SetOf(results)
  IN {f \in [1..Cardinality(S) -> S] : \A i, j \in DOMAIN f : i # j => f[i] # f[j]}

(***************************************************************************)
(* The inputs of the model.                                                *)
(***************************************************************************)
U1 == <<"h", "t", "t", "p", ":", "/", "/", "a">>
U2 == <<"h", "t", "t", "p", "s", ":", "/", "/", "b">>
X == <<"x">>
Cells == {U1, U2, X}

SeqsUpTo(S, n) == UNION {[1..k -> S] : k \in 0..n}

\* the raw rows after the first one; the empty row is a blank line
DataRows == SeqsUpTo(Cells, MaxCells)
\* the first raw row of a file
Headers == { << >>, << <<"c">> >>, << <<"c">>, <<"c">> >>, << <<"c">>, <<"d">> >> }

DotCsv == <<".", "c", "s", "v">>
Paths ==
  { << >>,
    <<"a", ".", "c", "s", "v">>,
    <<"a", ".", "C", "S", "V">>,
    <<"a", ".", "t", "x", "t">>,
    <<"a", ".", "c", "s", "v", ".", "t", "x", "t">>,
    <<"c", "s", "v">>,
    DotCsv }

\* what raises inside the try block
Causes == {"OSError", "UnicodeDecodeError", "csv.Error"}

(***************************************************************************)
(* The three checks of load_urls_from_csv before the try block.            *)
(***************************************************************************)
\* the checks with a fault: the extension is tested before the existence
pre_check_ext_first(file_path, exists) ==
  IF file_path = << >> THEN [err |-> "ValueError", msg |-> "required"]
  ELSE IF ~EndsWith(LowerStr(file_path), DotCsv) THEN [err |-> "ValueError", msg |-> "file type"]
  ELSE IF ~exists THEN [err |-> "FileNotFoundError", msg |-> "not found"]
  ELSE [err |-> "none", msg |-> ""]

pre_check(file_path, exists) ==
  IF file_path = << >> THEN [err |-> "ValueError", msg |-> "required"]
  ELSE IF ~exists THEN [err |-> "FileNotFoundError", msg |-> "not found"]
  ELSE IF ~EndsWith(LowerStr(file_path), DotCsv) THEN [err |-> "ValueError", msg |-> "file type"]
  ELSE [err |-> "none", msg |-> ""]

\* line 20 with a fault: the list is kept
keep_urls(old) == old
\* self.urls = [] at line 20
reset_urls(old) == << >>

\* clear_urls with a fault: the list is kept
not_cleared(old) == old
\* self.urls = [] at line 52
cleared(old) == << >>

\* the with statement with a fault: the handle stays as it is
with_leak(h) == h
\* leaving the with block, by return or by exception, closes the file
with_exit(h) == "closed"

(***************************************************************************)
(* The state.                                                              *)
(***************************************************************************)
VARIABLES
  heap,       \* the list objects: heap[o] is the content of list o
  urls,       \* self.urls: the list object the collector holds
  ret,        \* the list object the caller holds from the last return, 0 for none
  pc,         \* where load_urls_from_csv is: "idle", "open", "read"
  reader,     \* the DictReader: its fieldnames (None until read) and rows read
  results,    \* the local list results
  handle,     \* the file of the with statement: "none", "open", "closed"
  arg,        \* the file_path of the last load call and whether it exists
  pre,        \* the content of self.urls when the last call began
  seen,       \* the cell texts of the data rows the last load call read
  out,        \* the last call: its name, the exception it raised, its result
  probe       \* an argument of is_valid_url and what the call gave

vars == <<heap, urls, ret, pc, reader, results, handle, arg, pre, seen, out, probe>>

ObjIds == 1..3
UrlsOf == heap[urls]
NoReader == [fieldnames |-> None, rows |-> 0]
NoArg == [path |-> << >>, exists |-> FALSE]
NoParts == [lead |-> << >>, scheme |-> << >>, colon |-> << >>, slashes |-> << >>, host |-> << >>, tail |-> << >>]
NoProbe == [arg |-> None, parts |-> NoParts, done |-> FALSE, raised |-> FALSE, truthy |-> FALSE]
Ok(op, n) == [op |-> op, err |-> "none", msg |-> "", cause |-> "none", count |-> n]
Raised(op, e, cause) == [op |-> op, err |-> e.err, msg |-> e.msg, cause |-> cause, count |-> 0]

\* a list object nobody refers to
NewObj(u, r) == CHOOSE o \in ObjIds : o \notin {u, r} /\ \A q \in ObjIds : q \notin {u, r} => o <= q
\* the heap with list o set to l and the lists nobody refers to dropped
Store(h, o, l, u, r) ==
  [q \in ObjIds |-> IF q = o THEN l ELSE IF q \in {u, r} THEN h[q] ELSE << >>]

\* URLLoader.__init__
Init ==
  /\ heap = [o \in ObjIds |-> << >>]
  /\ urls = 1
  /\ ret = 0
  /\ pc = "idle"
  /\ reader = NoReader
  /\ results = << >>
  /\ handle = "none"
  /\ arg = NoArg
  /\ pre = << >>
  /\ seen = {}
  /\ out = Ok("init", 0)
  /\ probe = NoProbe

(***************************************************************************)
(* load_urls_from_csv, step by step.                                       *)
(***************************************************************************)
\* lines 11-18: one of the three checks raises
LoadRejected(file_path, exists) ==
  /\ pc = "idle"
  /\ pre_check(file_path, exists).err # "none"
  /\ arg' = [path |-> file_path, exists |-> exists]
  /\ pre' = UrlsOf
  /\ seen' = {}
  /\ handle' = "none"
  /\ out' = Raised("load_urls_from_csv", pre_check(file_path, exists), "none")
  /\ UNCHANGED <<heap, urls, ret, pc, reader, results, probe>>

\* lines 11-21: the checks pass, self.urls = [] and results = []
LoadBegin(file_path, exists) ==
  /\ pc = "idle"
  /\ pre_check(file_path, exists).err = "none"
  /\ arg' = [path |-> file_path, exists |-> exists]
  /\ pre' = UrlsOf
  /\ seen' = {}
  /\ handle' = "none"
  /\ LET o == NewObj(urls, ret)
     IN /\ urls' = o
        /\ heap' = Store(heap, o, reset_urls(UrlsOf), o, ret)
  /\ results' = << >>
  /\ reader' = NoReader
  /\ pc' = "open"
  /\ out' = Ok("load_urls_from_csv", 0)
  /\ UNCHANGED <<ret, probe>>

\* line 24-25: open succeeds
LoadOpen ==
  /\ pc = "open"
  /\ handle' = "open"
  /\ pc' = "read"
  /\ UNCHANGED <<heap, urls, ret, reader, results, arg, pre, seen, out, probe>>

\* lines 24, 35-36: open raises (a directory, no permission, a file removed
\* since the check), and the except clause raises Exception
LoadOpenFail ==
  /\ pc = "open"
  /\ pc' = "idle"
  /\ out' = Raised("load_urls_from_csv", [err |-> "Exception", msg |-> "reading"], "OSError")
  /\ results' = << >>
  /\ UNCHANGED <<heap, urls, ret, reader, handle, arg, pre, seen, probe>>

\* line 26, DictReader.fieldnames: the first raw row becomes the fieldnames
LoadHeader(row) ==
  /\ pc = "read"
  /\ reader.fieldnames = None
  /\ reader' = [reader EXCEPT !.fieldnames = List(row)]
  /\ UNCHANGED <<heap, urls, ret, pc, results, handle, arg, pre, seen, out, probe>>

\* line 26, DictReader.__next__: a blank line is passed over
LoadBlank ==
  /\ pc = "read"
  /\ reader.fieldnames # None
  /\ reader.rows < MaxRows
  /\ reader' = [reader EXCEPT !.rows = @ + 1]
  /\ UNCHANGED <<heap, urls, ret, pc, results, handle, arg, pre, seen, out, probe>>

\* lines 26-29: one data row, and the loop over its values
LoadRow(row) ==
  /\ pc = "read"
  /\ reader.fieldnames # None
  /\ reader.rows < MaxRows
  /\ row # << >>
  /\ reader' = [reader EXCEPT !.rows = @ + 1]
  /\ results' = results \o Accepted(Values(DictRow(reader.fieldnames.v, row)))
  /\ seen' = seen \cup SetOf(row)
  /\ UNCHANGED <<heap, urls, ret, pc, handle, arg, pre, out, probe>>

\* lines 26, 35-36: reading raises, the with block closes the file and the
\* except clause raises Exception
LoadReadFail(cause) ==
  /\ pc = "read"
  /\ handle' = with_exit(handle)
  /\ pc' = "idle"
  /\ out' = Raised("load_urls_from_csv", [err |-> "Exception", msg |-> "reading"], cause)
  /\ results' = << >>
  /\ reader' = NoReader
  /\ UNCHANGED <<heap, urls, ret, arg, pre, seen, probe>>

\* lines 26, 31-33: the rows end, the with block closes the file,
\* self.urls = list(set(results)) and the list is returned
LoadFinish ==
  /\ pc = "read"
  /\ handle' = with_exit(handle)
  /\ \E l \in list_of_set(results) :
       LET o == NewObj(urls, ret)
       IN /\ urls' = o
          /\ ret' = o
          /\ heap' = Store(heap, o, l, o, o)
          /\ out' = Ok("load_urls_from_csv", Len(l))
  /\ pc' = "idle"
  /\ results' = << >>
  /\ reader' = NoReader
  /\ UNCHANGED <<arg, pre, seen, probe>>

(***************************************************************************)
(* The other methods.                                                      *)
(***************************************************************************)
\* get_urls: return self.urls
GetUrls ==
  /\ pc = "idle"
  /\ ret' = urls
  /\ heap' = Store(heap, urls, UrlsOf, urls, urls)
  /\ out' = Ok("get_urls", Len(UrlsOf))
  /\ UNCHANGED <<urls, pc, reader, results, handle, arg, pre, seen, probe>>

\* get_url_count: return len(self.urls)
GetUrlCount ==
  /\ pc = "idle"
  /\ out' = Ok("get_url_count", Len(UrlsOf))
  /\ UNCHANGED <<heap, urls, ret, pc, reader, results, handle, arg, pre, seen, probe>>

\* clear_urls: self.urls = []
ClearUrls ==
  /\ pc = "idle"
  /\ pre' = UrlsOf
  /\ LET o == NewObj(urls, ret)
     IN /\ urls' = o
        /\ heap' = Store(heap, o, cleared(UrlsOf), o, ret)
  /\ out' = Ok("clear_urls", 0)
  /\ UNCHANGED <<ret, pc, reader, results, handle, arg, seen, probe>>

Next ==
  \/ \E p \in Paths, e \in BOOLEAN : LoadRejected(p, e)
  \/ \E p \in Paths, e \in BOOLEAN : LoadBegin(p, e)
  \/ LoadOpen
  \/ LoadOpenFail
  \/ \E h \in Headers : LoadHeader(h)
  \/ LoadBlank
  \/ \E r \in DataRows : LoadRow(r)
  \/ \E c \in Causes : LoadReadFail(c)
  \/ LoadFinish
  \/ GetUrls
  \/ GetUrlCount
  \/ ClearUrls

Spec == Init /\ [][Next]_vars

(***************************************************************************)
(* A caller that holds the list a call returned and changes it in place.   *)
(***************************************************************************)
\* the caller appends a text to the list it holds: one that is no URL, or
\* one the list holds already
CallerAppend(x) ==
  /\ pc = "idle"
  /\ ret # 0
  /\ x \in {X} \cup SetOf(heap[ret])
  /\ Len(heap[ret]) < MaxList
  /\ heap' = [heap EXCEPT ![ret] = Append(@, x)]
  /\ UNCHANGED <<urls, ret, pc, reader, results, handle, arg, pre, seen, out, probe>>

\* the caller removes the first element of the list it holds
CallerRemove ==
  /\ pc = "idle"
  /\ ret # 0
  /\ heap[ret] # << >>
  /\ heap' = [heap EXCEPT ![ret] = Tail(@)]
  /\ UNCHANGED <<urls, ret, pc, reader, results, handle, arg, pre, seen, out, probe>>

NextAlias ==
  \/ \E p \in Paths, e \in BOOLEAN : LoadRejected(p, e)
  \/ \E p \in Paths, e \in BOOLEAN : LoadBegin(p, e)
  \/ LoadOpen
  \/ LoadOpenFail
  \/ \E h \in Headers : LoadHeader(h)
  \/ LoadBlank
  \/ \E r \in DataRows : LoadRow(r)
  \/ \E c \in Causes : LoadReadFail(c)
  \/ LoadFinish
  \/ GetUrls
  \/ GetUrlCount
  \/ ClearUrls
  \/ \E x \in Cells : CallerAppend(x)
  \/ CallerRemove

SpecAlias == Init /\ [][NextAlias]_vars

(***************************************************************************)
(* is_valid_url on its own: the argument is a text put together from       *)
(* parts, None, or a list.                                                 *)
(***************************************************************************)
Leads == { << >>, <<" ">>, <<"\t">> }
Schemes == { << >>, http, https, <<"H", "T", "T", "P">>, <<"h", "T", "T", "p", "S">>, <<"f", "t", "p">> }
Colons == { << >>, <<":">> }
Slashes == { << >>, <<"/", "/">> }
Hosts == { << >>, <<"a">>, <<"[", "a">>, <<"a", "]">>, <<"[", "a", "]">>,
           <<"[", ":", ":", "1", "]">>, <<"[", "v", "1", ".", "x", "]">> }
Tails == { << >>, <<"/", "p">>, <<"?", "q">>, <<"#", "f">> }

AllParts == [lead : Leads, scheme : Schemes, colon : Colons, slashes : Slashes, host : Hosts, tail : Tails]
TextOf(parts) == parts.lead \o parts.scheme \o parts.colon \o parts.slashes \o parts.host \o parts.tail

Probes ==
  {[arg |-> Str(TextOf(parts)), parts |-> parts, done |-> FALSE, raised |-> FALSE, truthy |-> FALSE] : parts \in AllParts}
  \cup {[arg |-> v, parts |-> NoParts, done |-> FALSE, raised |-> FALSE, truthy |-> FALSE] :
          v \in {None, List(<< U1 >>), List(<< U1, X >>)}}

InitUrl ==
  /\ heap = [o \in ObjIds |-> << >>]
  /\ urls = 1
  /\ ret = 0
  /\ pc = "idle"
  /\ reader = NoReader
  /\ results = << >>
  /\ handle = "none"
  /\ arg = NoArg
  /\ pre = << >>
  /\ seen = {}
  /\ out = Ok("init", 0)
  /\ probe \in Probes

\* a call of is_valid_url
IsValidUrlCall ==
  /\ ~probe.done
  /\ probe' = [probe EXCEPT !.done = TRUE,
                            !.raised = is_valid_url(probe.arg).raised,
                            !.truthy = is_valid_url(probe.arg).truthy]
  /\ UNCHANGED <<heap, urls, ret, pc, reader, results, handle, arg, pre, seen, out>>

NextUrl == IsValidUrlCall

SpecUrl == InitUrl /\ [][NextUrl]_vars

(***************************************************************************)
(* The properties.                                                         *)
(***************************************************************************)
\* a load call has returned or raised, and no call was made since
LoadDone == pc = "idle" /\ out.op = "load_urls_from_csv"
LoadFailed == LoadDone /\ out.err # "none"
LoadSucceeded == LoadDone /\ out.err = "none"

NoRepeat(l) == \A i, j \in DOMAIN l : i # j => l[i] # l[j]
AllValid(l) == \A i \in DOMAIN l : is_valid_url(Str(l[i])).truthy

\* the paths of Paths whose extension is .csv in some case
CsvNamed ==
  { <<"a", ".", "c", "s", "v">>, <<"a", ".", "C", "S", "V">>, <<".", "c", "s", "v">> }
PassesChecks == arg.path # << >> /\ arg.exists /\ arg.path \in CsvNamed

\* C1: after a load call that failed with any error, the content of urls is
\* what it was when the call began.
C1_FailedLoadKeepsUrls == LoadFailed => UrlsOf = pre

\* C2: after a successful load, urls and the returned list hold exactly the
\* distinct texts, among all the cells of all the data rows read, that
\* is_valid_url accepts, each once.
C2_LoadHoldsValidCells ==
  LoadSucceeded =>
    /\ SetOf(UrlsOf) = {c \in seen : is_valid_url(Str(c)).truthy}
    /\ NoRepeat(UrlsOf)
    /\ ret = urls
    /\ out.count = Len(UrlsOf)

\* C3: in every state reached by load, clear and the two read calls, every
\* element of urls is accepted by is_valid_url and no two elements are equal.
C3_UrlsValidUnique == AllValid(UrlsOf) /\ NoRepeat(UrlsOf)

C3_Witness == LoadSucceeded /\ seen = Cells /\ Len(UrlsOf) = 2 /\ pre # << >>

\* C4: the first failing validation decides the error of a load call: an
\* empty path gives ValueError; else a path that does not exist gives
\* FileNotFoundError; else an extension other than .csv, in any case, gives
\* ValueError with no file opened; else a failure while opening or reading
\* gives Exception with its cause, and nothing else raises.
C4_ValidationOrder ==
  LoadDone =>
    /\ arg.path = << >> => out.err = "ValueError" /\ out.msg = "required"
    /\ arg.path # << >> /\ ~arg.exists => out.err = "FileNotFoundError"
    /\ arg.path # << >> /\ arg.exists /\ arg.path \notin CsvNamed =>
         out.err = "ValueError" /\ out.msg = "file type" /\ handle = "none"
    /\ PassesChecks =>
         /\ out.err \in {"none", "Exception"}
         /\ out.err = "Exception" <=> out.cause \in Causes

C4_Witness ==
  /\ LoadDone /\ arg.exists /\ arg.path = <<"a", ".", "t", "x", "t">>
  /\ out.err = "ValueError" /\ handle = "none"

\* the spellings of http and https among Schemes, and the hosts of Hosts
\* that are not empty and hold no bracket that urlsplit rejects
HttpSpellings == { http, https, <<"H", "T", "T", "P">>, <<"h", "T", "T", "p", "S">> }
GoodHosts == { <<"a">>, <<"[", ":", ":", "1", "]">>, <<"[", "v", "1", ".", "x", "]">> }
HasAuthority(parts) ==
  parts.colon = <<":">> /\ parts.slashes = <<"/", "/">> /\ parts.host \in GoodHosts

\* C5, as claimed: is_valid_url never raises, and is true exactly for a text
\* whose scheme as written is the lower-case http or https and whose
\* authority is not empty.
C5_SchemeAsWritten ==
  probe.done =>
    /\ ~probe.raised
    /\ probe.truthy <=>
         /\ probe.arg.t = "str"
         /\ probe.parts.scheme \in {http, https}
         /\ HasAuthority(probe.parts)

\* C5, amended: is_valid_url never raises, and is true exactly for a text
\* whose scheme is http or https in any case and whose authority is not
\* empty.
C5_SchemeAnyCase ==
  probe.done =>
    /\ ~probe.raised
    /\ probe.truthy <=>
         /\ probe.arg.t = "str"
         /\ probe.parts.scheme \in HttpSpellings
         /\ HasAuthority(probe.parts)

C5_Witness ==
  /\ probe.done /\ probe.truthy
  /\ probe.parts.scheme = <<"H", "T", "T", "P">>

\* C6: a caller that changes the list a call returned does not change the
\* content of urls.
C6_CallerCannotChangeUrls ==
  [][((\E x \in Cells : CallerAppend(x)) \/ CallerRemove) => UrlsOf' = UrlsOf]_vars

\* C7: clear_urls raises nothing and leaves urls empty and the count 0, and
\* a second clear_urls right after it leaves the same state.
C7_ClearEmptiesIdempotent ==
  [][ClearUrls =>
       /\ UrlsOf' = << >> /\ Len(UrlsOf') = 0 /\ out'.err = "none"
       /\ out.op = "clear_urls" => UrlsOf' = UrlsOf]_vars

C7_Witness == pc = "idle" /\ out.op = "clear_urls" /\ pre # << >> /\ UrlsOf = << >>

\* C8: when load_urls_from_csv is not running, the file it opened is not
\* open; a call that a validation rejected has opened none.
C8_NoHandleLeftOpen ==
  /\ pc = "idle" => handle # "open"
  /\ pc = "open" => handle = "none"
  /\ LoadFailed /\ out.err # "Exception" => handle = "none"

C8_Witness == LoadFailed /\ out.cause = "csv.Error" /\ handle = "closed"

\* C9: a load call that one of the three checks rejects leaves the content
\* of urls as it was when the call began.
C9_RejectedLoadKeepsUrls ==
  LoadDone /\ ~PassesChecks => out.err # "none" /\ UrlsOf = pre

C9_Witness == LoadFailed /\ out.err = "FileNotFoundError" /\ pre # << >> /\ UrlsOf = pre

\* C10: urls is empty from the moment the checks have passed until the load
\* succeeds, so a load call that passes the checks and then fails leaves urls
\* empty, whatever it held.
C10_FailureAfterChecksEmpties ==
  /\ pc \in {"open", "read"} => UrlsOf = << >>
  /\ LoadFailed /\ PassesChecks => UrlsOf = << >>

C10_Witness == LoadFailed /\ out.err = "Exception" /\ pre # << >> /\ UrlsOf = << >>

====
